---- MODULE Spec2Model ----
(***************************************************************************)
(* A model of the loom markdown-to-HTML pipeline (src/src/block.py,        *)
(* inline.py, textnode.py, leafnode.py, parentnode.py, htmlnode.py).       *)
(*                                                                         *)
(* Text is a sequence of one-character strings.  The pipeline is a chain   *)
(* of pure functions; each is an operator computed the way the code        *)
(* computes it, and the actions apply them to an input text that is typed  *)
(* token by token.                                                         *)
(***************************************************************************)
EXTENDS Integers, Sequences, FiniteSets, TLC

VARIABLES
    markdown,     \* the input text
    typed,        \* number of tokens the input text was typed in
    pc,           \* "input", then the name of the stage that has run
    blocks,       \* result of markdown_to_blocks
    block_type,   \* result of block_to_block_type on the raw input text
    block_types,  \* result of block_to_block_type on each block
    block_nodes,  \* outcome of get_block_html_node on each block
    text_nodes,   \* outcome of text_to_textnodes
    pass_input,   \* the node list handed to an inline pass, as the pass left it
    pass_output,  \* outcome of the inline pass
    scan,         \* locals of parse_inline_with_stack inside its while loop
    html_node,    \* an HTML node built by its constructors
    root,         \* outcome of markdown_to_html_node
    html          \* outcome of to_html on the root

vars == <<markdown, typed, pc, blocks, block_type, block_types, block_nodes,
          text_nodes, pass_input, pass_output, scan, html_node, root, html>>

(***************************************************************************)
(* Bounds of the model.                                                    *)
(***************************************************************************)
\* number of tokens an input text is typed in
MaxTokens == 4

\* height of the HTML trees built node by node
MaxHeight == 3

(***************************************************************************)
(* Python string primitives.                                               *)
(***************************************************************************)
\* the value None (of a url, a tag, a value)
None == <<"None">>

\* str.isspace() / the regex class \s, over the characters of the model
Whitespace == {" ", "\t", "\n", "\r", "\f"}

\* the line boundaries of str.splitlines() ("\r\n" counts as one)
LineBreaks == {"\n", "\r", "\f"}

\* the regex class \d and int() of one digit
Digits == {"0", "1", "2", "3", "4", "5", "6", "7", "8", "9"}

DigitVal(c) ==
    CASE c = "0" -> 0 [] c = "1" -> 1 [] c = "2" -> 2 [] c = "3" -> 3
      [] c = "4" -> 4 [] c = "5" -> 5 [] c = "6" -> 6 [] c = "7" -> 7
      [] c = "8" -> 8 [] c = "9" -> 9

\* int(s) of a non-empty run of digits
RECURSIVE int(_)
int(s) ==
    IF s = <<>> THEN 0
    ELSE 10 * int(SubSeq(s, 1, Len(s) - 1)) + DigitVal(s[Len(s)])

\* s[i:] with i counted from 1
From(s, i) == SubSeq(s, i, Len(s))

\* number of leading characters of s that belong to set
RECURSIVE LeadingIn(_, _)
LeadingIn(s, set) ==
    IF s # <<>> /\ s[1] \in set THEN 1 + LeadingIn(Tail(s), set) ELSE 0

\* number of trailing characters of s that belong to set
RECURSIVE TrailingIn(_, _)
TrailingIn(s, set) ==
    IF s # <<>> /\ s[Len(s)] \in set
    THEN 1 + TrailingIn(SubSeq(s, 1, Len(s) - 1), set) ELSE 0

\* str.strip()
strip(s) ==
    LET a == LeadingIn(s, Whitespace)
    IN  IF a = Len(s) THEN <<>>
        ELSE SubSeq(s, a + 1, Len(s) - TrailingIn(s, Whitespace))

\* str.startswith(prefix, index), index counted from 1
startswith(s, prefix, i) ==
    /\ i + Len(prefix) - 1 <= Len(s)
    /\ \A k \in 1..Len(prefix) : s[i + k - 1] = prefix[k]

\* str.find(sep) from index i, counted from 1; 0 when absent
RECURSIVE find(_, _, _)
find(s, sep, i) ==
    IF i + Len(sep) - 1 > Len(s) THEN 0
    ELSE IF startswith(s, sep, i) THEN i
    ELSE find(s, sep, i + 1)

\* str.split(sep): the pieces between the non-overlapping occurrences of a
\* non-empty sep, found left to right
RECURSIVE split(_, _)
split(s, sep) ==
    LET i == find(s, sep, 1)
    IN  IF i = 0 THEN <<s>>
        ELSE <<SubSeq(s, 1, i - 1)>> \o split(From(s, i + Len(sep)), sep)

\* index of the first line boundary of s, 0 when there is none
RECURSIVE FirstBreak(_, _)
FirstBreak(s, i) ==
    IF i > Len(s) THEN 0
    ELSE IF s[i] \in LineBreaks THEN i
    ELSE FirstBreak(s, i + 1)

\* str.splitlines(): no line for the empty string, no empty last line after
\* a final line boundary
RECURSIVE splitlines(_)
splitlines(s) ==
    IF s = <<>> THEN <<>>
    ELSE LET i == FirstBreak(s, 1)
         IN  IF i = 0 THEN <<s>>
             ELSE LET w == IF s[i] = "\r" /\ i < Len(s) /\ s[i + 1] = "\n"
                           THEN 2 ELSE 1
                  IN  <<SubSeq(s, 1, i - 1)>> \o splitlines(From(s, i + w))

\* str.replace(old, new) for a one-character old
replace(s, old, new) == [i \in 1..Len(s) |-> IF s[i] = old THEN new ELSE s[i]]

\* the concatenation of a sequence of texts
RECURSIVE Concat(_)
Concat(ss) == IF ss = <<>> THEN <<>> ELSE Head(ss) \o Concat(Tail(ss))

\* the non-empty texts of a sequence of texts, in order
RECURSIVE SelectNonEmpty(_)
SelectNonEmpty(ss) ==
    IF ss = <<>> THEN <<>>
    ELSE (IF Head(ss) # <<>> THEN <<Head(ss)>> ELSE <<>>)
         \o SelectNonEmpty(Tail(ss))

(***************************************************************************)
(* block.py: segmentation.                                                 *)
(***************************************************************************)
BlankLine == <<"\n", "\n">>

\* a plausible slip: the pieces are not stripped
markdown_to_blocks_nostrip(md) == SelectNonEmpty(split(md, BlankLine))

\* a plausible slip: pieces that are empty after stripping are kept
markdown_to_blocks_keepempty(md) ==
    LET parts == split(md, BlankLine)
    IN  [i \in 1..Len(parts) |-> strip(parts[i])]

markdown_to_blocks(md) ==
    LET parts == split(md, BlankLine)
    IN  SelectNonEmpty([i \in 1..Len(parts) |-> strip(parts[i])])

(***************************************************************************)
(* block.py: classification.                                               *)
(***************************************************************************)
BlockType == {"PARAGRAPH", "HEADING", "CODE", "QUOTE", "UNORDERED_LIST",
              "ORDERED_LIST"}

\* the backquote character (the code marker), which a TLA+ string cannot hold
Backquote == "BQ"

Fence == <<Backquote, Backquote, Backquote>>

NoNewline(s) == \A i \in 1..Len(s) : s[i] # "\n"

\* (.*)$ without re.MULTILINE: the rest holds no "\n", or one last "\n"
DotStarToEnd(s) ==
    \/ NoNewline(s)
    \/ s # <<>> /\ s[Len(s)] = "\n" /\ NoNewline(SubSeq(s, 1, Len(s) - 1))

\* search(r"^#{1,6}\s+(.*)$", markdown)
HeadingSearch(md) ==
    LET h == LeadingIn(md, {"#"})
        w == LeadingIn(From(md, h + 1), Whitespace)
    IN  /\ h \in 1..6
        /\ \E k \in 1..w : DotStarToEnd(From(md, h + k + 1))

\* a plausible slip: an opening fence alone qualifies, search(r"BQ{3}")
CodeSearch_unterminated(md) ==
    \E i \in 1..Len(md) : startswith(md, Fence, i)

\* search(r"BQ{3}([\s\S]*?)BQ{3}", markdown)
CodeSearch(md) ==
    \E i \in 1..Len(md) : \E j \in (i + 3)..Len(md) :
        startswith(md, Fence, i) /\ startswith(md, Fence, j)

\* fullmatch(r"\s{0,3}>\s?(.*)", line)
QuoteLineMatch(line) ==
    LET k == LeadingIn(line, Whitespace)
    IN  k <= 3 /\ Len(line) > k /\ line[k + 1] = ">" /\ NoNewline(line)

\* fullmatch(r"-\s*(.+)", line)
UnorderedLineMatch(line) ==
    Len(line) >= 2 /\ line[1] = "-" /\ NoNewline(line)

\* fullmatch(r"(\d+)\.\s.+", line)
OrderedLineMatch(line) ==
    LET d == LeadingIn(line, Digits)
    IN  /\ d >= 1
        /\ Len(line) >= d + 3
        /\ line[d + 1] = "."
        /\ line[d + 2] \in Whitespace
        /\ NoNewline(line)

\* a plausible slip: the numbering is not compared with the expected number
is_ordered_list_anynumber(block) ==
    LET b == strip(block)
        lines == splitlines(b)
    IN  b # <<>> /\ \A i \in 1..Len(lines) : OrderedLineMatch(lines[i])

\* the loop returns False at the first line that does not match or whose
\* number is not the expected one; expected starts at 1
is_ordered_list(block) ==
    LET b == strip(block)
        lines == splitlines(b)
    IN  /\ b # <<>>
        /\ \A i \in 1..Len(lines) :
              /\ OrderedLineMatch(lines[i])
              /\ int(SubSeq(lines[i], 1, LeadingIn(lines[i], Digits))) = i

\* a plausible slip: the list rules are tried before the heading rule
block_to_block_type_listfirst(md) ==
    LET lines == splitlines(md)
    IN  IF md = <<>> THEN "PARAGRAPH"
        ELSE IF \A i \in 1..Len(lines) : UnorderedLineMatch(lines[i])
             THEN "UNORDERED_LIST"
        ELSE IF HeadingSearch(md) THEN "HEADING"
        ELSE "PARAGRAPH"

block_to_block_type(md) ==
    LET lines == splitlines(md)
    IN  IF md = <<>> THEN "PARAGRAPH"
        ELSE IF HeadingSearch(md) THEN "HEADING"
        ELSE IF CodeSearch(md) THEN "CODE"
        ELSE IF \A i \in 1..Len(lines) : QuoteLineMatch(lines[i])
             THEN "QUOTE"
        ELSE IF \A i \in 1..Len(lines) : UnorderedLineMatch(lines[i])
             THEN "UNORDERED_LIST"
        ELSE IF is_ordered_list(md) THEN "ORDERED_LIST"
        ELSE "PARAGRAPH"

(***************************************************************************)
(* Outcomes: a returned value or a raised exception.                       *)
(***************************************************************************)
\* a call that returned val
Return(val) == [exc |-> "none", msg |-> "", arg |-> <<>>, val |-> val]

\* a call that raised exception exc with message msg about arg
Raise(exc, msg, arg) == [exc |-> exc, msg |-> msg, arg |-> arg, val |-> None]

\* a list holding the value a call returned; its exception propagates
One(outcome) ==
    IF outcome.exc # "none" THEN outcome ELSE Return(<<outcome.val>>)

\* two list results in turn, extended into one list; the second is not
\* computed when the first raises
Both(first, rest) ==
    IF first.exc # "none" THEN first
    ELSE IF rest.exc # "none" THEN rest
    ELSE Return(first.val \o rest.val)

(***************************************************************************)
(* textnode.py: the inline nodes.                                          *)
(***************************************************************************)
TextType == {"PLAIN", "BOLD", "ITALIC", "CODE", "LINK", "IMAGE"}

\* TextNode(txt, node_type, url, children)
TextNode(txt, node_type, url, children) ==
    [text |-> txt, node_type |-> node_type, url |-> url, children |-> children]

(***************************************************************************)
(* inline.py: pass 1, the delimiter scan.                                  *)
(***************************************************************************)
\* INLINE_DELIMITERS in the order of the dict
DelimiterOrder == << <<"*", "*">>, <<"_">>, <<Backquote>> >>

INLINE_DELIMITERS(delimiter) ==
    CASE delimiter = <<"*", "*">> -> "BOLD"
      [] delimiter = <<"_">> -> "ITALIC"
      [] delimiter = <<Backquote>> -> "CODE"

\* the first delimiter, in dict order, that the text holds at index
match_delimiter_at(index, text) ==
    IF \E k \in 1..Len(DelimiterOrder) : startswith(text, DelimiterOrder[k], index)
    THEN DelimiterOrder[CHOOSE k \in 1..Len(DelimiterOrder) :
             /\ startswith(text, DelimiterOrder[k], index)
             /\ \A j \in 1..(k - 1) : ~startswith(text, DelimiterOrder[j], index)]
    ELSE None

\* The nodes under construction are kept in an arena: arena[1] is root, a
\* node's children are arena indices, and current_parent and the parents
\* saved on open_stack are arena indices (the code's object references).
ScanInit ==
    [index |-> 1,
     buffer |-> <<>>,
     arena |-> <<TextNode(<<>>, "PLAIN", None, <<>>)>>,
     open_stack |-> <<>>,
     current_parent |-> 1]

\* current_parent.children.append(node)
AppendChild(arena, parent, node) ==
    LET a == Append(arena, node)
    IN  [a EXCEPT ![parent].children = Append(@, Len(a))]

\* if buffer: current_parent.children.append(TextNode(buffer, PLAIN))
Flush(st) ==
    IF st.buffer # <<>>
    THEN AppendChild(st.arena, st.current_parent,
                     TextNode(st.buffer, "PLAIN", None, <<>>))
    ELSE st.arena

\* a plausible slip: a closing delimiter makes root the current parent
\* instead of the parent saved on the stack
ScanStep_closetoroot(text, st) ==
    LET delimiter == match_delimiter_at(st.index, text)
    IN  IF delimiter # None
        THEN IF st.open_stack # <<>>
                /\ st.open_stack[Len(st.open_stack)][1] = delimiter
             THEN [index |-> st.index + Len(delimiter),
                   buffer |-> <<>>,
                   arena |-> Flush(st),
                   open_stack |-> SubSeq(st.open_stack, 1, Len(st.open_stack) - 1),
                   current_parent |-> 1]
             ELSE [index |-> st.index + Len(delimiter),
                   buffer |-> <<>>,
                   arena |-> AppendChild(Flush(st), st.current_parent,
                                 TextNode(<<>>, INLINE_DELIMITERS(delimiter),
                                          None, <<>>)),
                   open_stack |-> Append(st.open_stack,
                                         <<delimiter, st.current_parent>>),
                   current_parent |-> Len(Flush(st)) + 1]
        ELSE [st EXCEPT !.buffer = Append(@, text[st.index]),
                        !.index = @ + 1]

\* one iteration of the while loop
ScanStep(text, st) ==
    LET delimiter == match_delimiter_at(st.index, text)
    IN  IF delimiter # None
        THEN IF st.open_stack # <<>>
                /\ st.open_stack[Len(st.open_stack)][1] = delimiter
             THEN \* closing delimiter
                  [index |-> st.index + Len(delimiter),
                   buffer |-> <<>>,
                   arena |-> Flush(st),
                   open_stack |-> SubSeq(st.open_stack, 1, Len(st.open_stack) - 1),
                   current_parent |-> st.open_stack[Len(st.open_stack)][2]]
             ELSE \* opening delimiter
                  LET flushed == Flush(st)
                      opened == AppendChild(flushed, st.current_parent,
                                    TextNode(<<>>, INLINE_DELIMITERS(delimiter),
                                             None, <<>>))
                  IN  [index |-> st.index + Len(delimiter),
                       buffer |-> <<>>,
                       arena |-> opened,
                       open_stack |-> Append(st.open_stack,
                                             <<delimiter, st.current_parent>>),
                       current_parent |-> Len(opened)]
        ELSE [st EXCEPT !.buffer = Append(@, text[st.index]),
                        !.index = @ + 1]

\* while index < len(text)
RECURSIVE ScanRun(_, _)
ScanRun(text, st) ==
    IF st.index <= Len(text) THEN ScanRun(text, ScanStep(text, st)) ELSE st

\* the node tree below arena[i]
RECURSIVE Tree(_, _)
Tree(arena, i) ==
    [arena[i] EXCEPT !.children =
        [k \in 1..Len(arena[i].children) |-> Tree(arena, arena[i].children[k])]]

\* a plausible slip: the check of open_stack at the end of the text is missing
ScanEnd_nocheck(st) == Return(Tree(Flush(st), 1).children)

\* after the loop: ValueError for a delimiter still open, else the last
\* buffer is flushed and the children of root are the result
ScanEnd(st) ==
    IF st.open_stack # <<>>
    THEN Raise("ValueError", "Could not find closing delimiter",
               st.open_stack[Len(st.open_stack)][1])
    ELSE Return(Tree(Flush(st), 1).children)

\* the scan of one PLAIN node
ScanText(text) == ScanEnd(ScanRun(text, ScanInit))

RECURSIVE parse_inline_with_stack(_)
parse_inline_with_stack(nodes) ==
    IF nodes = <<>> THEN Return(<<>>)
    ELSE Both(IF Head(nodes).node_type # "PLAIN"
              THEN Return(<<Head(nodes)>>)
              ELSE ScanText(Head(nodes).text),
              parse_inline_with_stack(Tail(nodes)))

(***************************************************************************)
(* inline.py: passes 2 and 3, images and links.                            *)
(***************************************************************************)
Letters == {"a", "b", "c", "d", "e", "f", "g", "h", "i", "j", "k", "l", "m",
            "n", "o", "p", "q", "r", "s", "t", "u", "v", "w", "x", "y", "z"}

\* the regex class [\w\s], over the characters of the model
WordOrSpace == Letters \cup Digits \cup {"_"} \cup Whitespace

\* number of leading characters of s that do not belong to set
RECURSIVE LeadingNotIn(_, _)
LeadingNotIn(s, set) ==
    IF s # <<>> /\ s[1] \notin set THEN 1 + LeadingNotIn(Tail(s), set) ELSE 0

\* no match of a pattern at an index
NoMatch == [text |-> <<>>, url |-> <<>>, next |-> 0]

\* r"!\[([\w\s]+)\]\(([^\(\)]*)\)" at index i: the groups and the index
\* after the match, or NoMatch
ImageMatchAt(text, i) ==
    IF ~startswith(text, <<"!", "[">>, i) THEN NoMatch
    ELSE LET a == LeadingIn(From(text, i + 2), WordOrSpace)
             u == LeadingNotIn(From(text, i + 4 + a), {"(", ")"})
         IN  IF /\ a >= 1
                /\ startswith(text, <<"]", "(">>, i + 2 + a)
                /\ i + 4 + a + u <= Len(text)
                /\ text[i + 4 + a + u] = ")"
             THEN [text |-> SubSeq(text, i + 2, i + 1 + a),
                   url |-> SubSeq(text, i + 4 + a, i + 3 + a + u),
                   next |-> i + 5 + a + u]
             ELSE NoMatch

\* findall: the matches left to right, each search starting after the
\* previous match
RECURSIVE FindAllImages(_, _)
FindAllImages(text, i) ==
    IF i > Len(text) THEN <<>>
    ELSE LET m == ImageMatchAt(text, i)
         IN  IF m.next = 0 THEN FindAllImages(text, i + 1)
             ELSE <<<<m.text, m.url>>>> \o FindAllImages(text, m.next)

extract_markdown_images(text) == FindAllImages(text, 1)

\* The url of the link pattern, [^)\s]+(?:\([^)]*\)[^)\s]*)*, followed by
\* the closing \), as the backtracking matcher tries it: UrlRun tries the
\* run [^)\s]* ending before e, longest first down to lo; UrlRest tries one
\* more parenthesised group before it settles for the closing parenthesis.
\* Both give the index of the closing parenthesis, 0 when there is no match.
RECURSIVE UrlRest(_, _), UrlRun(_, _, _)
UrlRest(t, p) ==
    LET q == IF p <= Len(t) /\ t[p] = "(" THEN find(t, <<")">>, p + 1) ELSE 0
        group == IF q = 0 THEN 0
                 ELSE UrlRun(t, q + 1,
                        q + 1 + LeadingNotIn(From(t, q + 1), {")"} \cup Whitespace))
    IN  IF group # 0 THEN group
        ELSE IF p <= Len(t) /\ t[p] = ")" THEN p
        ELSE 0

UrlRun(t, lo, e) ==
    IF e < lo THEN 0
    ELSE LET r == UrlRest(t, e)
         IN  IF r # 0 THEN r ELSE UrlRun(t, lo, e - 1)

\* r"(?<!!)\[([^\]]*)\]\(([^)\s]+(?:\([^)]*\)[^)\s]*)*)\)" at index i
LinkMatchAt(text, i) ==
    IF text[i] # "[" \/ (i > 1 /\ text[i - 1] = "!") THEN NoMatch
    ELSE LET j == find(text, <<"]">>, i + 1)
             u == j + 2
             c == IF j # 0 /\ startswith(text, <<"]", "(">>, j)
                  THEN UrlRun(text, u + 1,
                         u + LeadingNotIn(From(text, u), {")"} \cup Whitespace))
                  ELSE 0
         IN  IF c = 0 THEN NoMatch
             ELSE [text |-> SubSeq(text, i + 1, j - 1),
                   url |-> SubSeq(text, u, c - 1),
                   next |-> c + 1]

RECURSIVE FindAllLinks(_, _)
FindAllLinks(text, i) ==
    IF i > Len(text) THEN <<>>
    ELSE LET m == LinkMatchAt(text, i)
         IN  IF m.next = 0 THEN FindAllLinks(text, i + 1)
             ELSE <<<<m.text, m.url>>>> \o FindAllLinks(text, m.next)

extract_markdown_links(text) == FindAllLinks(text, 1)

\* f"![{image[0]}]({image[1]})"
ImageSource(image) == <<"!", "[">> \o image[1] \o <<"]", "(">> \o image[2] \o <<")">>

\* f"[{link[0]}]({link[1]})"
LinkSource(link) == <<"[">> \o link[1] \o <<"]", "(">> \o link[2] \o <<")">>

MatchSource(new_type, m) ==
    IF new_type = "IMAGE" THEN ImageSource(m) ELSE LinkSource(m)

\* One round of the loop over the matches of a node, shared by
\* split_nodes_image and split_nodes_link: parts is txt split at the source
\* text of the first match; the piece before it and the new node are
\* appended, and txt becomes parts[1], which raises IndexError when txt did
\* not hold the match.
RECURSIVE SplitAtMatches(_, _, _, _), SplitRound(_, _, _, _)
SplitRound(parts, this_type, matches, new_type) ==
    IF Len(parts) < 2 THEN Raise("IndexError", "list index out of range", <<>>)
    ELSE Both(Return((IF parts[1] # <<>>
                      THEN <<TextNode(parts[1], this_type, None, <<>>)>>
                      ELSE <<>>)
                     \o <<TextNode(Head(matches)[1], new_type,
                                   Head(matches)[2], <<>>)>>),
              SplitAtMatches(parts[2], this_type, Tail(matches), new_type))

\* the loop over the matches, and the rest of txt appended after it
SplitAtMatches(txt, this_type, matches, new_type) ==
    IF matches = <<>>
    THEN Return(IF txt # <<>> THEN <<TextNode(txt, this_type, None, <<>>)>>
                ELSE <<>>)
    ELSE SplitRound(split(txt, MatchSource(new_type, Head(matches))),
                    this_type, matches, new_type)

\* one node of old_nodes once its children have been split, with outcome
\* kids: kept with them as its children when its text holds no match, else
\* replaced by the pieces of its text
SplitNode(node, kids, matches, new_type) ==
    IF kids.exc # "none" THEN kids
    ELSE IF matches = <<>> THEN Return(<<[node EXCEPT !.children = kids.val]>>)
    ELSE SplitAtMatches(node.text, node.node_type, matches, new_type)

RECURSIVE split_nodes_image(_)
split_nodes_image(old_nodes) ==
    IF old_nodes = <<>> THEN Return(<<>>)
    ELSE Both(SplitNode(Head(old_nodes),
                        IF Head(old_nodes).children # <<>>
                        THEN split_nodes_image(Head(old_nodes).children)
                        ELSE Return(<<>>),
                        extract_markdown_images(Head(old_nodes).text),
                        "IMAGE"),
              split_nodes_image(Tail(old_nodes)))

RECURSIVE split_nodes_link(_)
split_nodes_link(old_nodes) ==
    IF old_nodes = <<>> THEN Return(<<>>)
    ELSE Both(SplitNode(Head(old_nodes),
                        IF Head(old_nodes).children # <<>>
                        THEN split_nodes_link(Head(old_nodes).children)
                        ELSE Return(<<>>),
                        extract_markdown_links(Head(old_nodes).text),
                        "LINK"),
              split_nodes_link(Tail(old_nodes)))

\* the pass that makes nodes of new_type
SplitPass(old_nodes, new_type) ==
    IF new_type = "IMAGE" THEN split_nodes_image(old_nodes)
    ELSE split_nodes_link(old_nodes)

\* findall of the pattern of new_type
ExtractMatches(new_type, text) ==
    IF new_type = "IMAGE" THEN extract_markdown_images(text)
    ELSE extract_markdown_links(text)

\* The nodes of old_nodes as a pass leaves them. 'node.children =
\* split_nodes_image(node.children)' assigns to the node that the caller's
\* list holds: a node whose children were split, with outcome kids, has the
\* returned list as its children; when the split of the children raised, the
\* assignment is not reached and the children are as the inner call left
\* them. The nodes after the one at which the pass raised (own is the
\* outcome of the loop body for the node) are not reached.
RECURSIVE AfterSplit(_, _)
AfterSplitNode(node, kids, own, rest, new_type) ==
    IF kids.exc # "none"
    THEN <<[node EXCEPT !.children = AfterSplit(@, new_type)]>> \o rest
    ELSE <<[node EXCEPT !.children = kids.val]>>
         \o (IF own.exc # "none" THEN rest ELSE AfterSplit(rest, new_type))

AfterSplitKids(node, kids, rest, new_type) ==
    AfterSplitNode(node, kids,
                   SplitNode(node, kids, ExtractMatches(new_type, node.text),
                             new_type),
                   rest, new_type)

AfterSplit(old_nodes, new_type) ==
    IF old_nodes = <<>> THEN <<>>
    ELSE AfterSplitKids(Head(old_nodes),
                        IF Head(old_nodes).children # <<>>
                        THEN SplitPass(Head(old_nodes).children, new_type)
                        ELSE Return(<<>>),
                        Tail(old_nodes), new_type)

\* a plausible slip: the children of a node with several children are not
\* collapsed in turn
collapse_norecurse(nodes) ==
    [i \in 1..Len(nodes) |->
        IF Len(nodes[i].children) = 1 /\ nodes[i].text = <<>>
        THEN TextNode(nodes[i].children[1].text, nodes[i].node_type, None, <<>>)
        ELSE nodes[i]]

\* a node with exactly one child and an empty text is replaced by a node of
\* its own type with the child's text; a node with several children has its
\* children collapsed in turn
RECURSIVE collapse_single_child_nodes(_)
collapse_single_child_nodes(nodes) ==
    [i \in 1..Len(nodes) |->
        LET node == nodes[i]
        IN  IF node.children = <<>> THEN node
            ELSE IF Len(node.children) = 1
                 THEN IF node.text = <<>>
                      THEN TextNode(node.children[1].text, node.node_type,
                                    None, <<>>)
                      ELSE node
            ELSE [node EXCEPT !.children = collapse_single_child_nodes(@)]]

\* nodes = split_nodes_image(nodes), reached when the scan returned
ThenSplitImages(nodes) ==
    IF nodes.exc # "none" THEN nodes ELSE split_nodes_image(nodes.val)

\* nodes = split_nodes_link(nodes), reached when the image pass returned
ThenSplitLinks(nodes) ==
    IF nodes.exc # "none" THEN nodes ELSE split_nodes_link(nodes.val)

\* nodes = collapse_single_child_nodes(nodes), reached when the link pass
\* returned
ThenCollapse(nodes) ==
    IF nodes.exc # "none" THEN nodes
    ELSE Return(collapse_single_child_nodes(nodes.val))

text_to_textnodes(text) ==
    ThenCollapse(ThenSplitLinks(ThenSplitImages(
        parse_inline_with_stack(<<TextNode(text, "PLAIN", None, <<>>)>>))))

(***************************************************************************)
(* htmlnode.py, leafnode.py, parentnode.py: the HTML nodes.                *)
(***************************************************************************)
\* the value None of a list or dict attribute (children, props)
Absent == <<[kind |-> "None"]>>

\* LeafNode(tag, value, props)
LeafNode(tag, value, props) ==
    [kind |-> "LeafNode", tag |-> tag, value |-> value, children |-> Absent,
     props |-> props]

\* ParentNode(tag, children, props)
ParentNode(tag, children, props) ==
    [kind |-> "ParentNode", tag |-> tag, value |-> None, children |-> children,
     props |-> props]

\* ParentNode(tag, children) of children whose computation may have raised
ParentOf(tag, children) ==
    IF children.exc # "none" THEN children
    ELSE Return(ParentNode(tag, children.val, Absent))

\* HTMLNode.props_to_html: f' {prop}="{value}"' for every item
RECURSIVE props_to_html(_)
props_to_html(props) ==
    IF props = Absent \/ props = <<>> THEN <<>>
    ELSE <<" ">> \o Head(props).name \o <<"=", "\"">> \o Head(props).value
         \o <<"\"">> \o props_to_html(Tail(props))

OpenTag(node) == <<"<">> \o node.tag \o props_to_html(node.props) \o <<">">>

CloseTag(node) == <<"<", "/">> \o node.tag \o <<">">>

\* f"<{tag}{props}>{children}</{tag}>" of children whose rendering, inner,
\* may have raised
Wrapped(node, inner) ==
    IF inner.exc # "none" THEN inner
    ELSE Return(OpenTag(node) \o inner.val \o CloseTag(node))

\* LeafNode.to_html and ParentNode.to_html; JoinChildren is the list
\* comprehension over the children, which stops at the first child that
\* raises
RECURSIVE to_html(_), JoinChildren(_)
\* a plausible slip: ParentNode.to_html does not check its children
to_html_nochildrencheck(node) ==
    IF node.kind = "LeafNode"
    THEN IF node.value = None THEN Raise("ValueError", "Empty Value", <<>>)
         ELSE IF node.tag = None THEN Return(node.value)
         ELSE Return(OpenTag(node) \o node.value \o CloseTag(node))
    ELSE IF node.tag = None \/ node.tag = <<>>
         THEN Raise("ValueError", "None tag for parent node", <<>>)
    ELSE Wrapped(node, JoinChildren(IF node.children = Absent THEN <<>>
                                    ELSE node.children))

\* a plausible slip: LeafNode.to_html tests 'not self.value'
to_html_falsyvalue(node) ==
    IF node.kind = "LeafNode"
    THEN IF node.value = None \/ node.value = <<>>
         THEN Raise("ValueError", "Empty Value", <<>>)
         ELSE IF node.tag = None THEN Return(node.value)
         ELSE Return(OpenTag(node) \o node.value \o CloseTag(node))
    ELSE IF node.tag = None \/ node.tag = <<>>
         THEN Raise("ValueError", "None tag for parent node", <<>>)
    ELSE IF node.children = Absent \/ node.children = <<>>
         THEN Raise("ValueError", "None children tag for parent node", <<>>)
    ELSE Wrapped(node, JoinChildren(node.children))

to_html(node) ==
    IF node.kind = "LeafNode"
    THEN IF node.value = None THEN Raise("ValueError", "Empty Value", <<>>)
         ELSE IF node.tag = None THEN Return(node.value)
         ELSE Return(OpenTag(node) \o node.value \o CloseTag(node))
    ELSE IF node.tag = None \/ node.tag = <<>>
         THEN Raise("ValueError", "None tag for parent node", <<>>)
    ELSE IF node.children = Absent \/ node.children = <<>>
         THEN Raise("ValueError", "None children tag for parent node", <<>>)
    ELSE Wrapped(node, JoinChildren(node.children))

JoinChildren(children) ==
    IF children = <<>> THEN Return(<<>>)
    ELSE Both(to_html(Head(children)), JoinChildren(Tail(children)))

(***************************************************************************)
(* textnode.py: inline nodes to HTML nodes.                                *)
(***************************************************************************)
\* INLINE_TAG_MAP.get(node_type)
INLINE_TAG_MAP(node_type) ==
    CASE node_type = "BOLD" -> <<"b">>
      [] node_type = "ITALIC" -> <<"i">>
      [] node_type = "CODE" -> <<"c", "o", "d", "e">>
      [] OTHER -> None

Prop(name, value) == [name |-> name, value |-> value]

\* text_node_to_html_node; HtmlNodes is the list comprehension
\* [text_node_to_html_node(node) for node in nodes]
RECURSIVE text_node_to_html_node(_), HtmlNodes(_)
text_node_to_html_node(text_node) ==
    LET url == IF text_node.url # None THEN text_node.url ELSE <<>>
    IN  IF text_node.children # <<>>
        THEN IF INLINE_TAG_MAP(text_node.node_type) = None
             THEN Raise("ValueError", "cannot have children", <<>>)
             ELSE ParentOf(INLINE_TAG_MAP(text_node.node_type),
                           HtmlNodes(text_node.children))
        ELSE CASE text_node.node_type = "PLAIN" ->
                    Return(LeafNode(None, text_node.text, Absent))
               [] text_node.node_type = "BOLD" ->
                    Return(LeafNode(<<"b">>, text_node.text, Absent))
               [] text_node.node_type = "ITALIC" ->
                    Return(LeafNode(<<"i">>, text_node.text, Absent))
               [] text_node.node_type = "CODE" ->
                    Return(LeafNode(<<"c", "o", "d", "e">>, text_node.text, Absent))
               [] text_node.node_type = "LINK" ->
                    Return(LeafNode(<<"a">>, text_node.text,
                                    <<Prop(<<"h", "r", "e", "f">>, url)>>))
               [] text_node.node_type = "IMAGE" ->
                    Return(LeafNode(<<"i", "m", "g">>, <<>>,
                                    <<Prop(<<"s", "r", "c">>, url),
                                      Prop(<<"a", "l", "t">>, text_node.text)>>))
               [] OTHER -> Raise("ValueError", "Missed this testcase", <<>>)

HtmlNodes(nodes) ==
    IF nodes = <<>> THEN Return(<<>>)
    ELSE Both(One(text_node_to_html_node(Head(nodes))), HtmlNodes(Tail(nodes)))

\* [text_node_to_html_node(node) for node in nodes] of nodes whose
\* computation may have raised
ThenHtmlNodes(nodes) ==
    IF nodes.exc # "none" THEN nodes ELSE HtmlNodes(nodes.val)

(***************************************************************************)
(* block.py: blocks to HTML nodes.                                         *)
(***************************************************************************)
\* the outcome of fullmatch(pattern, line) and its group(1)
Matched(group) == [matched |-> TRUE, group |-> group]

NotMatched == [matched |-> FALSE, group |-> <<>>]

\* \s+ or \s* followed by (.+): the greedy whitespace run gives back one
\* character when it would leave none for the group
GroupAfterSpaces(rest) ==
    LET w == LeadingIn(rest, Whitespace)
        k == IF w = Len(rest) THEN w - 1 ELSE w
    IN  From(rest, k + 1)

\* fullmatch(r"^#{1,6}\s+(.+)$", line)
HeadingLineMatch(line) ==
    LET h == LeadingIn(line, {"#"})
        rest == From(line, h + 1)
    IN  IF /\ h \in 1..6
           /\ Len(rest) >= 2
           /\ rest[1] \in Whitespace
           /\ NoNewline(line)
        THEN Matched(GroupAfterSpaces(rest))
        ELSE NotMatched

\* fullmatch(r"\s{0,3}>\s?(.*)", line)
QuoteLineGroup(line) ==
    LET k == LeadingIn(line, Whitespace)
        rest == From(line, k + 2)
    IN  IF QuoteLineMatch(line)
        THEN Matched(IF rest # <<>> /\ rest[1] \in Whitespace
                     THEN Tail(rest) ELSE rest)
        ELSE NotMatched

\* fullmatch(r"-\s*(.+)", line)
UnorderedLineGroup(line) ==
    IF UnorderedLineMatch(line) THEN Matched(GroupAfterSpaces(Tail(line)))
    ELSE NotMatched

\* fullmatch(r"\d+\.\s*(\S.+)", line)
OrderedLineGroup(line) ==
    LET d == LeadingIn(line, Digits)
        rest == From(line, d + 2)
        group == From(rest, LeadingIn(rest, Whitespace) + 1)
    IN  IF /\ d >= 1
           /\ Len(line) > d
           /\ line[d + 1] = "."
           /\ Len(group) >= 2
           /\ NoNewline(line)
        THEN Matched(group)
        ELSE NotMatched

\* the four patterns text_to_children passes to html_node_regex_match
LineGroup(pattern, line) ==
    CASE pattern = "HEADING" -> HeadingLineMatch(line)
      [] pattern = "QUOTE" -> QuoteLineGroup(line)
      [] pattern = "UNORDERED_LIST" -> UnorderedLineGroup(line)
      [] pattern = "ORDERED_LIST" -> OrderedLineGroup(line)

\* assert m is not None; text_nodes = text_to_textnodes(m.group(1))
LineInline(m) ==
    IF ~m.matched THEN Raise("AssertionError", "", <<>>)
    ELSE text_to_textnodes(m.group)

\* what one line adds to the result: with a subparent a ParentNode holding
\* the line's inline nodes, without one the inline nodes themselves
LineItem(text_nodes_, subparent) ==
    IF subparent # None
    THEN One(ParentOf(subparent, ThenHtmlNodes(text_nodes_)))
    ELSE text_nodes_

\* the loop of html_node_regex_match over the lines
RECURSIVE LineNodes(_, _, _)
LineNodes(pattern, lines, subparent) ==
    IF lines = <<>> THEN Return(<<>>)
    ELSE Both(LineItem(LineInline(LineGroup(pattern, Head(lines))), subparent),
              LineNodes(pattern, Tail(lines), subparent))

html_node_regex_match(pattern, text, subparent) ==
    IF subparent # None
    THEN LineNodes(pattern, splitlines(text), subparent)
    ELSE ThenHtmlNodes(LineNodes(pattern, splitlines(text), subparent))

\* the subparent text_to_children passes for a block type
Subparent(type) ==
    CASE type = "UNORDERED_LIST" -> <<"u", "l">>
      [] type = "ORDERED_LIST" -> <<"o", "l">>
      [] OTHER -> None

text_to_children(text) ==
    CASE block_to_block_type(text) = "PARAGRAPH" ->
           ThenHtmlNodes(text_to_textnodes(replace(text, "\n", " ")))
      [] block_to_block_type(text) = "CODE" ->
           Raise("AssertionError", "How the hell control reach here", <<>>)
      [] OTHER ->
           html_node_regex_match(block_to_block_type(text), text,
                                 Subparent(block_to_block_type(text)))

\* fullmatch(r"^(#{1,6})\s+.*$", markdown_block)
HeadingBlockMatch(block) ==
    LET h == LeadingIn(block, {"#"})
        w == LeadingIn(From(block, h + 1), Whitespace)
    IN  /\ h \in 1..6
        /\ \E k \in 1..w : NoNewline(From(block, h + k + 1))

\* fullmatch(r"BQ{3}[^\n]*\n([\s\S]*?)BQ{3}", markdown_block)
CodeBlockMatch(block) ==
    LET nl == find(block, <<"\n">>, 4)
    IN  IF /\ startswith(block, Fence, 1)
           /\ nl # 0
           /\ Len(block) - 2 > nl
           /\ startswith(block, Fence, Len(block) - 2)
        THEN Matched(SubSeq(block, nl + 1, Len(block) - 3))
        ELSE NotMatched

\* f"h{len(hashes)}"
HeadingTag(level) ==
    <<"h", CASE level = 1 -> "1" [] level = 2 -> "2" [] level = 3 -> "3"
             [] level = 4 -> "4" [] level = 5 -> "5" [] level = 6 -> "6">>

\* the tag get_block_html_node gives the ParentNode of a block
BlockTag(type, markdown_block) ==
    CASE type = "PARAGRAPH" -> <<"p">>
      [] type = "HEADING" -> HeadingTag(LeadingIn(markdown_block, {"#"}))
      [] type = "QUOTE" -> <<"b", "l", "o", "c", "k", "q", "u", "o", "t", "e">>
      [] type = "UNORDERED_LIST" -> <<"u", "l">>
      [] type = "ORDERED_LIST" -> <<"o", "l">>

\* the cases of get_block_html_node for a block of the given type
BlockNode(type, markdown_block) ==
    IF type = "HEADING" /\ ~HeadingBlockMatch(markdown_block)
    THEN Raise("AssertionError", "", <<>>)
    ELSE IF type = "CODE"
    THEN IF ~CodeBlockMatch(markdown_block).matched
         THEN Raise("AssertionError", "", <<>>)
         ELSE Return(ParentNode(<<"p", "r", "e">>,
                        <<LeafNode(<<"c", "o", "d", "e">>,
                                   CodeBlockMatch(markdown_block).group, Absent)>>,
                        Absent))
    ELSE ParentOf(BlockTag(type, markdown_block),
                  text_to_children(markdown_block))

get_block_html_node(markdown_block) ==
    BlockNode(block_to_block_type(markdown_block), markdown_block)

\* the loop of markdown_to_html_node, which stops at the first block that
\* raises
RECURSIVE BlockNodes(_)
BlockNodes(bs) ==
    IF bs = <<>> THEN Return(<<>>)
    ELSE Both(One(get_block_html_node(Head(bs))), BlockNodes(Tail(bs)))

markdown_to_html_node(md) ==
    ParentOf(<<"d", "i", "v">>, BlockNodes(markdown_to_blocks(md)))

(***************************************************************************)
(* The input texts and the stages.                                         *)
(***************************************************************************)
\* tokens of the segmentation specification
SegmentTokens == {<<"a">>, <<"b">>, <<" ">>, <<"\n">>, <<"\n", "\n">>,
                  <<"\r">>, <<"\r", "\n">>}

\* tokens of the classification specification
ClassifyTokens == {<<"#">>, <<" ">>, <<" ", " ", " ">>, <<"a">>, <<"\n">>,
                   <<"-">>, <<"1", ".", " ">>, <<"2", ".", " ">>}

Init ==
    /\ markdown = <<>>
    /\ typed = 0
    /\ pc = "input"
    /\ blocks = None
    /\ block_type = None
    /\ block_types = None
    /\ block_nodes = None
    /\ text_nodes = None
    /\ pass_input = None
    /\ pass_output = None
    /\ scan = None
    /\ html_node = None
    /\ root = None
    /\ html = None

Type(Tokens) ==
    /\ pc = "input"
    /\ typed < MaxTokens
    /\ \E tok \in Tokens : markdown' = markdown \o tok
    /\ typed' = typed + 1
    /\ UNCHANGED <<pc, blocks, block_type, block_types, block_nodes,
                   text_nodes, root, html, pass_input, pass_output, scan,
                   html_node>>

TypeSegment == Type(SegmentTokens)

TypeClassify == Type(ClassifyTokens)

CallMarkdownToBlocks ==
    /\ pc = "input"
    /\ blocks' = markdown_to_blocks(markdown)
    /\ pc' = "blocks"
    /\ UNCHANGED <<markdown, typed, block_type, block_types, block_nodes,
                   text_nodes, root, html, pass_input, pass_output, scan,
                   html_node>>

CallBlockToBlockType ==
    /\ pc = "input"
    /\ block_type' = block_to_block_type(markdown)
    /\ pc' = "classified"
    /\ UNCHANGED <<markdown, typed, blocks, block_types, block_nodes,
                   text_nodes, root, html, pass_input, pass_output, scan,
                   html_node>>

\* the classification of every block of the document, as
\* get_block_html_node classifies the blocks markdown_to_html_node hands it
ClassifyBlocks ==
    /\ pc = "blocks"
    /\ block_types' = [i \in 1..Len(blocks) |-> block_to_block_type(blocks[i])]
    /\ pc' = "blocks_classified"
    /\ UNCHANGED <<markdown, typed, blocks, block_type, block_nodes,
                   text_nodes, root, html, pass_input, pass_output, scan,
                   html_node>>

NextSegment == TypeSegment \/ CallMarkdownToBlocks

SpecSegment == Init /\ [][NextSegment]_vars

NextClassify ==
    \/ TypeClassify
    \/ CallBlockToBlockType
    \/ CallMarkdownToBlocks
    \/ ClassifyBlocks

SpecClassify == Init /\ [][NextClassify]_vars

\* tokens of the inline specification
InlineTokens == {<<"a">>, <<" ">>, <<"*", "*">>, <<"_">>, <<Backquote>>,
                 <<"[", "a", "]", "(", "b", ")">>}

\* tokens of the document specification
DocumentTokens == {<<"a">>, <<" ">>, <<"\n">>, <<"\n", "\n">>, <<"#">>, <<">">>,
                   <<"*", "*">>, <<"[", "a", "]", "(", "b", ")">>,
                   <<"-", " ">>, <<"1", ".", " ">>}

TypeInline == Type(InlineTokens)

TypeDocument == Type(DocumentTokens)

CallTextToTextnodes ==
    /\ pc = "input"
    /\ text_nodes' = text_to_textnodes(markdown)
    /\ pc' = "inline"
    /\ UNCHANGED <<markdown, typed, blocks, block_type, block_types,
                   block_nodes, root, html, pass_input, pass_output, scan,
                   html_node>>

\* generate_page: markdown_to_html_node(markdown) ...
CallMarkdownToHtmlNode ==
    /\ pc = "input"
    /\ root' = markdown_to_html_node(markdown)
    /\ pc' = "parsed"
    /\ UNCHANGED <<markdown, typed, blocks, block_type, block_types,
                   block_nodes, text_nodes, html, pass_input, pass_output,
                   scan, html_node>>

\* ... .to_html(), on the root that was returned
CallToHtml ==
    /\ pc = "parsed"
    /\ root.exc = "none"
    /\ html' = to_html(root.val)
    /\ pc' = "rendered"
    /\ UNCHANGED <<markdown, typed, blocks, block_type, block_types,
                   block_nodes, text_nodes, root, pass_input, pass_output,
                   scan, html_node>>

NextInline == TypeInline \/ CallTextToTextnodes

SpecInline == Init /\ [][NextInline]_vars

Next == TypeDocument \/ CallMarkdownToHtmlNode \/ CallToHtml

Spec == Init /\ [][Next]_vars

\* the node of every block of the document, as the loop of
\* markdown_to_html_node calls get_block_html_node on the blocks it was
\* handed
RenderBlocks ==
    /\ pc = "blocks_classified"
    /\ block_nodes' = [i \in 1..Len(blocks) |-> get_block_html_node(blocks[i])]
    /\ pc' = "blocks_rendered"
    /\ UNCHANGED <<markdown, typed, blocks, block_type, block_types,
                   text_nodes, root, html, pass_input, pass_output, scan,
                   html_node>>

\* tokens of the code-block specification
CodeTokens == {Fence, <<"a">>, <<" ">>, <<"\n">>, <<"\n", "\n">>, <<"*", "*">>}

TypeCode == Type(CodeTokens)

NextCode == TypeCode \/ CallMarkdownToBlocks \/ ClassifyBlocks \/ RenderBlocks

SpecCode == Init /\ [][NextCode]_vars

\* tokens of the list specification
ListTokens == {<<"-", " ">>, <<"1", ".", " ">>, <<"2", ".", " ">>, <<"a">>,
               <<"\n">>, <<"*", "*">>}

TypeList == Type(ListTokens)

NextList == TypeList \/ CallMarkdownToBlocks \/ ClassifyBlocks \/ RenderBlocks

SpecList == Init /\ [][NextList]_vars

\* tokens of the quote specification
QuoteTokens == {<<">">>, <<"\n", ">">>, <<"a">>, <<" ">>, <<"*", "*">>}

TypeQuote == Type(QuoteTokens)

NextQuote == TypeQuote \/ CallMarkdownToBlocks \/ ClassifyBlocks \/ RenderBlocks

SpecQuote == Init /\ [][NextQuote]_vars

\* tokens of the table specification
TableTokens == {<<"|", "a", "|">>, <<"a", "|">>,
                <<"\n", "|", "-", "-", "-", "|">>, <<"-", "-", "-", ":", "|">>,
                <<":", "-", "-", "-", ":", "|">>, <<"\n", "|", "a", "|">>,
                <<"\n", "|", "-", "-", "|">>, Fence}

TypeTable == Type(TableTokens)

NextTable == TypeTable \/ CallMarkdownToBlocks \/ ClassifyBlocks \/ RenderBlocks

SpecTable == Init /\ [][NextTable]_vars

\* tokens of the nesting specification
NestTokens == {<<"*", "*">>, <<"_">>, <<"b", "o", "l", "d", " ">>,
               <<"_", "a", "n", "d", " ", "i", "t", "a", "l", "i", "c", "_">>,
               <<"*", "*", "a", "n", "d", " ", "i", "t", "a", "l", "i", "c", "*",
                 "*">>}

TypeNest == Type(NestTokens)

NextNest == TypeNest \/ CallTextToTextnodes

SpecNest == Init /\ [][NextNest]_vars

\* text_to_textnodes, one pass at a time: nodes = [TextNode(text, PLAIN)],
\* nodes = parse_inline_with_stack(nodes)
CallParseInlineWithStack ==
    /\ pc = "input"
    /\ pass_input' = <<TextNode(markdown, "PLAIN", None, <<>>)>>
    /\ pass_output' =
           parse_inline_with_stack(<<TextNode(markdown, "PLAIN", None, <<>>)>>)
    /\ pc' = "scanned"
    /\ UNCHANGED <<markdown, typed, blocks, block_type, block_types,
                   block_nodes, text_nodes, root, html, scan, html_node>>

\* nodes = split_nodes_image(nodes), on the list the scan returned
CallSplitNodesImage ==
    /\ pc = "scanned"
    /\ pass_output.exc = "none"
    /\ pass_input' = AfterSplit(pass_output.val, "IMAGE")
    /\ pass_output' = split_nodes_image(pass_output.val)
    /\ pc' = "images"
    /\ UNCHANGED <<markdown, typed, blocks, block_type, block_types,
                   block_nodes, text_nodes, root, html, scan, html_node>>

\* nodes = split_nodes_link(nodes), on the list the image pass returned
CallSplitNodesLink ==
    /\ pc = "images"
    /\ pass_output.exc = "none"
    /\ pass_input' = AfterSplit(pass_output.val, "LINK")
    /\ pass_output' = split_nodes_link(pass_output.val)
    /\ pc' = "links"
    /\ UNCHANGED <<markdown, typed, blocks, block_type, block_types,
                   block_nodes, text_nodes, root, html, scan, html_node>>

\* tokens of the specification of the passes
PassTokens == {<<"!", "[", "a", "]", "(", "b", ")">>,
               <<"!", "[", "b", "]", "(", "a", ")">>,
               <<"[", "a", "]", "(", "b", ")">>, <<"a">>, <<" ">>, <<"*", "*">>}

TypePass == Type(PassTokens)

NextPasses ==
    \/ TypePass
    \/ CallParseInlineWithStack
    \/ CallSplitNodesImage
    \/ CallSplitNodesLink

SpecPasses == Init /\ [][NextPasses]_vars

\* tokens of the link specification
LinkTokens == {<<"[", "a", "]", "(", "b">>, <<"(", "a", ")">>, <<")">>, <<"!">>,
               <<"a">>}

TypeLink == Type(LinkTokens)

NextLink == TypeLink \/ CallTextToTextnodes

SpecLink == Init /\ [][NextLink]_vars

\* tokens of the emphasis specification
EmphasisTokens == {<<"*">>, <<"_">>, <<"a">>, <<"b">>, <<" ">>}

TypeEmphasis == Type(EmphasisTokens)

NextEmphasis == TypeEmphasis \/ CallTextToTextnodes

SpecEmphasis == Init /\ [][NextEmphasis]_vars

\* the longest path from an HTML node down to a node without children
RECURSIVE Height(_), MaxChildHeight(_)
Height(node) ==
    IF node.children = Absent \/ node.children = <<>> THEN 1
    ELSE 1 + MaxChildHeight(node.children)

MaxChildHeight(children) ==
    IF children = <<>> THEN 0
    ELSE IF Height(Head(children)) >= MaxChildHeight(Tail(children))
         THEN Height(Head(children))
         ELSE MaxChildHeight(Tail(children))

\* arguments of the constructors of the HTML nodes
LeafTags == {None, <<"b">>}

LeafValues == {None, <<>>, <<"a", "<", "&">>}

LeafProps == {Absent, <<Prop(<<"h">>, <<"\"", "&">>)>>}

ParentTags == {None, <<"p">>}

\* LeafNode(tag, value, props)
NewLeafNode ==
    /\ pc \in {"input", "built"}
    /\ \E tag \in LeafTags, value \in LeafValues, props \in LeafProps :
           html_node' = LeafNode(tag, value, props)
    /\ pc' = "built"
    /\ UNCHANGED <<markdown, typed, blocks, block_type, block_types,
                   block_nodes, text_nodes, root, html, pass_input,
                   pass_output, scan>>

\* ParentNode(tag, children): children is None, an empty list, or a list
\* that holds the node built last
NewParentNode ==
    /\ pc \in {"input", "built"}
    /\ \E tag \in ParentTags :
           \/ \E children \in {Absent, <<>>} :
                  html_node' = ParentNode(tag, children, Absent)
           \/ /\ pc = "built"
              /\ Height(html_node) < MaxHeight
              /\ \E children \in {<<html_node>>,
                                   <<LeafNode(None, <<"a">>, Absent), html_node>>} :
                     html_node' = ParentNode(tag, children, Absent)
    /\ pc' = "built"
    /\ UNCHANGED <<markdown, typed, blocks, block_type, block_types,
                   block_nodes, text_nodes, root, html, pass_input,
                   pass_output, scan>>

\* node.to_html() on the node built last
CallToHtmlOnNode ==
    /\ pc = "built"
    /\ html' = to_html(html_node)
    /\ pc' = "node_rendered"
    /\ UNCHANGED <<markdown, typed, blocks, block_type, block_types,
                   block_nodes, text_nodes, root, pass_input, pass_output,
                   scan, html_node>>

NextHtml == NewLeafNode \/ NewParentNode \/ CallToHtmlOnNode

SpecHtml == Init /\ [][NextHtml]_vars

\* tokens of the specification of the line breaks of a document
BreakTokens == {Fence, <<"a">>, <<"\n">>, <<"\n", "\n">>, <<"\r", "\n">>,
                <<"\r", "\n", "\r", "\n">>}

TypeBreak == Type(BreakTokens)

NextBreak == TypeBreak \/ CallMarkdownToHtmlNode \/ CallToHtml

SpecBreak == Init /\ [][NextBreak]_vars

\* parse_inline_with_stack on [TextNode(text, PLAIN)], one iteration of the
\* while loop at a time: the locals are initialised ...
StartScan ==
    /\ pc = "input"
    /\ scan' = ScanInit
    /\ pc' = "scanning"
    /\ UNCHANGED <<markdown, typed, blocks, block_type, block_types,
                   block_nodes, text_nodes, root, html, pass_input,
                   pass_output, html_node>>

\* ... the loop body runs while index < len(text) ...
ScanLoop ==
    /\ pc = "scanning"
    /\ scan.index <= Len(markdown)
    /\ scan' = ScanStep(markdown, scan)
    /\ UNCHANGED <<markdown, typed, pc, blocks, block_type, block_types,
                   block_nodes, text_nodes, root, html, pass_input,
                   pass_output, html_node>>

\* ... and after the loop the function raises or returns
ScanReturn ==
    /\ pc = "scanning"
    /\ scan.index > Len(markdown)
    /\ pass_input' = <<TextNode(markdown, "PLAIN", None, <<>>)>>
    /\ pass_output' = ScanEnd(scan)
    /\ pc' = "scanned"
    /\ UNCHANGED <<markdown, typed, blocks, block_type, block_types,
                   block_nodes, text_nodes, root, html, scan, html_node>>

\* tokens of the scan specification
ScanTokens == {<<"a">>, <<"*", "*">>, <<"_">>, <<Backquote>>}

TypeScan == Type(ScanTokens)

NextScan == TypeScan \/ StartScan \/ ScanLoop \/ ScanReturn

SpecScan == Init /\ [][NextScan]_vars

(***************************************************************************)
(* The document pipeline: C1, C2, C4.                                      *)
(***************************************************************************)
Unterminated(outcome) ==
    outcome.exc = "ValueError" /\ outcome.msg = "Could not find closing delimiter"

\* C1: markdown_to_html_node either returns a root node or fails with the
\* unterminated-inline-delimiter error; it never fails with another error.
C1_OnlyUnterminatedFails ==
    pc = "parsed" => root.exc = "none" \/ Unterminated(root)

\* C2: every root node that markdown_to_html_node returns renders without
\* error.
C2_ReturnedRootRenders ==
    pc = "rendered" => html.exc = "none"

DivTag == <<"d", "i", "v">>

\* C4: the root is one 'div' Parent with one child per block, in document
\* order, and it renders as '<div>', the renderings of the blocks without
\* separators, '</div>'.
C4_DivOfBlocks ==
    pc = "rendered" =>
        LET bs == markdown_to_blocks(markdown)
            kids == root.val.children
        IN  /\ root.val.kind = "ParentNode"
            /\ root.val.tag = DivTag
            /\ Len(kids) = Len(bs)
            /\ \A i \in 1..Len(bs) :
                  /\ get_block_html_node(bs[i]).exc = "none"
                  /\ get_block_html_node(bs[i]).val = kids[i]
            /\ html.exc = "none"
            /\ html.val = <<"<">> \o DivTag \o <<">">>
                          \o Concat([i \in 1..Len(kids) |-> to_html(kids[i]).val])
                          \o <<"<", "/">> \o DivTag \o <<">">>

(***************************************************************************)
(* The inline parser: C3.                                                  *)
(***************************************************************************)
\* the delimiter markers of a text, left to right
RECURSIVE MarkersOf(_)
MarkersOf(s) ==
    IF s = <<>> THEN <<>>
    ELSE IF Len(s) >= 2 /\ s[1] = "*" /\ s[2] = "*"
         THEN <<<<"*", "*">>>> \o MarkersOf(From(s, 3))
    ELSE IF s[1] \in {"_", Backquote} THEN <<<<s[1]>>>> \o MarkersOf(Tail(s))
    ELSE MarkersOf(Tail(s))

\* the markers that are still open after a sequence of markers: a marker
\* equal to the innermost open one closes it, any other opens
RECURSIVE StillOpen(_, _)
StillOpen(markers, open) ==
    IF markers = <<>> THEN open
    ELSE IF open # <<>> /\ open[Len(open)] = Head(markers)
         THEN StillOpen(Tail(markers), SubSeq(open, 1, Len(open) - 1))
    ELSE StillOpen(Tail(markers), Append(open, Head(markers)))

\* C3: with a delimiter still open at the end of the text, text_to_textnodes
\* fails with the error that names that delimiter and returns no nodes;
\* with every delimiter closed it does not fail with this error.
C3_UnclosedDelimiterFails ==
    pc = "inline" =>
        LET open == StillOpen(MarkersOf(markdown), <<>>)
        IN  IF open # <<>>
            THEN /\ Unterminated(text_nodes)
                 /\ text_nodes.arg = open[Len(open)]
                 /\ text_nodes.val = None
            ELSE ~Unterminated(text_nodes)

\* two delimiters are open at the end and the call has failed
C3_Witness ==
    /\ pc = "inline"
    /\ Len(StillOpen(MarkersOf(markdown), <<>>)) = 2
    /\ Unterminated(text_nodes)

(***************************************************************************)
(* Segmentation: C5, C6.                                                   *)
(***************************************************************************)
\* the pieces of a text between its blank-line separators, a separator
\* being a whole run of two or more "\n"
RECURSIVE PiecesByBlankLines(_)
PiecesByBlankLines(s) ==
    LET i == find(s, BlankLine, 1)
    IN  IF i = 0 THEN <<s>>
        ELSE <<SubSeq(s, 1, i - 1)>>
             \o PiecesByBlankLines(From(s, i + LeadingIn(From(s, i), {"\n"})))

Trimmed(b) == b # <<>> /\ b[1] \notin Whitespace /\ b[Len(b)] \notin Whitespace

\* C5: markdown_to_blocks returns the pieces between blank lines, in source
\* order, each stripped; no block is empty or has leading or trailing
\* whitespace; a run of several blank lines separates like one; empty or
\* whitespace-only input yields the empty list.
C5_BlocksAreTrimmedPieces ==
    pc = "blocks" =>
        LET pieces == PiecesByBlankLines(markdown)
        IN  /\ blocks = SelectNonEmpty([i \in 1..Len(pieces) |-> strip(pieces[i])])
            /\ \A i \in 1..Len(blocks) : Trimmed(blocks[i])
            /\ (strip(markdown) = <<>> => blocks = <<>>)

\* two blocks separated by a run of three line feeds
C5_Witness ==
    /\ pc = "blocks"
    /\ Len(blocks) = 2
    /\ find(markdown, <<"\n", "\n", "\n">>, 1) > 0

\* the document written with LF only: every CRLF becomes LF
RECURSIVE NormalizeLineEndings(_)
NormalizeLineEndings(s) ==
    IF s = <<>> THEN <<>>
    ELSE IF startswith(s, <<"\r", "\n">>, 1)
         THEN <<"\n">> \o NormalizeLineEndings(From(s, 3))
    ELSE <<s[1]>> \o NormalizeLineEndings(Tail(s))

\* C6: markdown_to_blocks of a document with CRLF (or mixed) line endings
\* returns the same blocks as of the same document written with LF only.
C6_CrlfLikeLf ==
    pc = "blocks" => blocks = markdown_to_blocks(NormalizeLineEndings(markdown))

(***************************************************************************)
(* Classification: C7, C8, C9, C10.                                        *)
(***************************************************************************)
\* '<number>. <content>' with a non-empty content
NumberedLine(line) ==
    LET d == LeadingIn(line, Digits)
    IN  d >= 1 /\ Len(line) >= d + 3 /\ line[d + 1] = "." /\ line[d + 2] = " "

LineNumber(line) == int(SubSeq(line, 1, LeadingIn(line, Digits)))

\* every line is numbered, consecutively from the first line's own number
ConsecutiveNumberedLines(md) ==
    LET lines == splitlines(strip(md))
    IN  /\ lines # <<>>
        /\ \A i \in 1..Len(lines) :
              /\ NumberedLine(lines[i])
              /\ LineNumber(lines[i]) = LineNumber(lines[1]) + i - 1

\* C7: a block is ORDERED_LIST exactly when every line is
\* '<number>. <content>' and the numbers are consecutive starting from the
\* first line's own number.
C7_OrderedFromOwnNumber ==
    pc = "classified" =>
        (block_type = "ORDERED_LIST" <=> ConsecutiveNumberedLines(markdown))

\* 0 to 3 leading spaces, 1 to 6 '#', at least one space
HeadingLine(md) ==
    LET sp == LeadingIn(md, {" "})
        h == LeadingIn(From(md, sp + 1), {"#"})
    IN  /\ sp <= 3
        /\ h \in 1..6
        /\ Len(md) > sp + h
        /\ md[sp + h + 1] = " "

\* C8: a one-line block is HEADING exactly when, after 0 to 3 leading
\* spaces, it starts with 1 to 6 '#' followed by at least one space.
C8_HeadingAfterLeadingSpaces ==
    pc = "classified" /\ markdown # <<>> /\ NoNewline(markdown) =>
        (block_type = "HEADING" <=> HeadingLine(markdown))

\* every line is '-', a space, and a possibly empty content
DashSpaceLines(md) ==
    LET lines == splitlines(md)
    IN  /\ lines # <<>>
        /\ \A i \in 1..Len(lines) :
              Len(lines[i]) >= 2 /\ lines[i][1] = "-" /\ lines[i][2] = " "

\* C9: a block is UNORDERED_LIST exactly when every line is '-' followed by
\* a space and then the (possibly empty) item content.
C9_UnorderedNeedsSpace ==
    pc = "classified" =>
        (block_type = "UNORDERED_LIST" <=> DashSpaceLines(markdown))

RECURSIVE rfind(_, _, _)
rfind(s, sub, start) ==
    IF start < 1 THEN 0
    ELSE IF startswith(s, sub, start) THEN start
    ELSE rfind(s, sub, start - 1)

\* the text between the opening fence line and the closing fence
FenceInterior(b) ==
    SubSeq(b, find(b, <<"\n">>, 1) + 1, rfind(b, Fence, Len(b) - 2) - 1)

\* a 'pre' Parent holding a single 'code' Leaf
PreCode(content) ==
    ParentNode(<<"p", "r", "e">>,
               <<LeafNode(<<"c", "o", "d", "e">>, content, Absent)>>, Absent)

\* C11: every block classified CODE is rendered as a 'pre' Parent holding a
\* single 'code' Leaf whose content is the text between the opening fence
\* line and the closing fence, verbatim.
C11_CodeBlockVerbatim ==
    pc = "blocks_rendered" =>
        \A i \in 1..Len(blocks) :
            block_types[i] = "CODE" =>
                block_nodes[i] = Return(PreCode(FenceInterior(blocks[i])))

(***************************************************************************)
(* Lists: C12.                                                             *)
(***************************************************************************)
\* a list line without its marker, '- ' or 'N. '
ItemText(type, line) ==
    IF type = "UNORDERED_LIST" THEN From(line, 3)
    ELSE From(line, LeadingIn(line, Digits) + 3)

ListTag(type) == IF type = "UNORDERED_LIST" THEN <<"u", "l">> ELSE <<"o", "l">>

\* the inline-parsed content of a text, as HTML nodes
InlineContent(text) == ThenHtmlNodes(text_to_textnodes(text))

\* C12: a block classified as a list of n lines is rendered as one 'ul' or
\* 'ol' Parent with n children in line order, each an 'li' Parent holding
\* the inline-parsed content of its line without the marker.
C12_ListOfItems ==
    pc = "blocks_rendered" =>
        \A i \in 1..Len(blocks) :
            block_types[i] \in {"UNORDERED_LIST", "ORDERED_LIST"} =>
                LET lines == splitlines(blocks[i])
                    items == [k \in 1..Len(lines) |->
                                InlineContent(ItemText(block_types[i], lines[k]))]
                IN  IF \A k \in 1..Len(lines) : items[k].exc = "none"
                    THEN block_nodes[i] =
                             Return(ParentNode(ListTag(block_types[i]),
                                 [k \in 1..Len(lines) |->
                                     ParentNode(<<"l", "i">>, items[k].val,
                                                Absent)],
                                 Absent))
                    ELSE block_nodes[i].exc # "none"

(***************************************************************************)
(* Quotes: C13.                                                            *)
(***************************************************************************)
\* a quote line without its leading '>' and at most one following space
QuoteStripped(line) ==
    LET rest == From(line, LeadingIn(line, Whitespace) + 2)
    IN  IF rest # <<>> /\ rest[1] = " " THEN Tail(rest) ELSE rest

\* the lines joined into one text with sep between them
RECURSIVE Joined(_, _)
Joined(lines, sep) ==
    IF lines = <<>> THEN <<>>
    ELSE IF Len(lines) = 1 THEN lines[1]
    ELSE lines[1] \o sep \o Joined(Tail(lines), sep)

\* the quote node of a block whose stripped lines are re-joined with sep and
\* inline-parsed as one text
QuoteOfJoined(block, sep) ==
    LET lines == splitlines(block)
    IN  ParentOf(<<"b", "l", "o", "c", "k", "q", "u", "o", "t", "e">>,
            InlineContent(Joined([k \in 1..Len(lines) |-> QuoteStripped(lines[k])],
                                 sep)))

\* C13: a block classified QUOTE is rendered as one 'blockquote' Parent
\* holding the inline parse of the one text that its lines, stripped of '>'
\* and at most one following space, are re-joined into (with a line feed or
\* a space between consecutive lines).
C13_QuoteParsedAsOneText ==
    pc = "blocks_rendered" =>
        \A i \in 1..Len(blocks) :
            block_types[i] = "QUOTE" =>
                \/ block_nodes[i] = QuoteOfJoined(blocks[i], <<"\n">>)
                \/ block_nodes[i] = QuoteOfJoined(blocks[i], <<" ">>)

(***************************************************************************)
(* Tables: C14, C15, C16, C17.                                             *)
(***************************************************************************)
\* a pipe-delimited row: a line that begins and ends with '|'
PipeRow(line) == Len(line) >= 2 /\ line[1] = "|" /\ line[Len(line)] = "|"

\* the pieces of s between its separating '|': a '|' after a backslash or
\* inside a code span (between two backquotes) does not separate
RECURSIVE SplitCells(_, _, _)
SplitCells(s, cell, in_code) ==
    IF s = <<>> THEN <<cell>>
    ELSE IF Len(s) >= 2 /\ s[1] = "\\" /\ s[2] = "|"
         THEN SplitCells(From(s, 3), cell \o <<"\\", "|">>, in_code)
    ELSE IF s[1] = Backquote
         THEN SplitCells(Tail(s), Append(cell, s[1]), ~in_code)
    ELSE IF s[1] = "|" /\ ~in_code
         THEN <<cell>> \o SplitCells(Tail(s), <<>>, FALSE)
    ELSE SplitCells(Tail(s), Append(cell, s[1]), in_code)

\* the trimmed cells of a pipe-delimited row
RowCells(line) ==
    LET cells == SplitCells(SubSeq(line, 2, Len(line) - 1), <<>>, FALSE)
    IN  [k \in 1..Len(cells) |-> strip(cells[k])]

\* an alignment marker: an optional ':', three or more '-', an optional ':'
DelimiterCell(cell) ==
    LET l == IF cell # <<>> /\ cell[1] = ":" THEN 1 ELSE 0
        d == LeadingIn(From(cell, l + 1), {"-"})
        rest == From(cell, l + d + 1)
    IN  d >= 3 /\ (rest = <<>> \/ rest = <<":">>)

DelimiterRow(line) ==
    /\ PipeRow(line)
    /\ \A k \in 1..Len(RowCells(line)) : DelimiterCell(RowCells(line)[k])

\* a header row, then a delimiter row with as many cells
TableBlock(block) ==
    LET lines == splitlines(block)
    IN  /\ Len(lines) >= 2
        /\ PipeRow(lines[1])
        /\ DelimiterRow(lines[2])
        /\ Len(RowCells(lines[1])) = Len(RowCells(lines[2]))

TagIs(node, tag) == node.kind = "ParentNode" /\ node.tag = tag

\* node is a 'table' Parent: a header section of one row, and a body
\* section of one row per body line exactly when there is a body line
TableShape(node, header_cells, body_lines) ==
    /\ TagIs(node, <<"t", "a", "b", "l", "e">>)
    /\ Len(node.children) = (IF body_lines = 0 THEN 1 ELSE 2)
    /\ TagIs(node.children[1], <<"t", "h", "e", "a", "d">>)
    /\ Len(node.children[1].children) = 1
    /\ Len(node.children[1].children[1].children) = header_cells
    /\ body_lines > 0 =>
           /\ TagIs(node.children[2], <<"t", "b", "o", "d", "y">>)
           /\ Len(node.children[2].children) = body_lines

\* C14: a block of a header row and a delimiter row with the same number
\* of cells is rendered as a 'table' Parent whose header section holds one
\* cell per header cell, without the delimiter row, and whose body section
\* holds one row per body line and is absent when there is no body line.
C14_TableSections ==
    pc = "blocks_rendered" =>
        \A i \in 1..Len(blocks) :
            TableBlock(blocks[i]) =>
                /\ block_nodes[i].exc = "none"
                /\ TableShape(block_nodes[i].val,
                              Len(RowCells(splitlines(blocks[i])[1])),
                              Len(splitlines(blocks[i])) - 2)

\* the first line is a pipe-delimited row, but the block is no table: it has
\* one line only, or its second line is no delimiter row, or the delimiter
\* row has another number of cells than the header row
FailedTable(block) ==
    /\ block # <<>>
    /\ PipeRow(splitlines(block)[1])
    /\ ~TableBlock(block)

\* C15 as stated: such a block is classified PARAGRAPH.
C15_FailedTableIsParagraph ==
    pc = "blocks_classified" =>
        \A i \in 1..Len(blocks) :
            FailedTable(blocks[i]) => block_types[i] = "PARAGRAPH"

\* the text holds two triple-backquote markers
FencePair(block) ==
    /\ find(block, Fence, 1) > 0
    /\ find(block, Fence, find(block, Fence, 1) + 3) > 0

\* C15 as amended: such a block is classified PARAGRAPH, unless it holds
\* two triple-backquote markers, which make it CODE by the earlier rule.
C15_FailedTableIsParagraphOrCode ==
    pc = "blocks_classified" =>
        \A i \in 1..Len(blocks) :
            FailedTable(blocks[i]) =>
                block_types[i] = (IF FencePair(blocks[i]) THEN "CODE"
                                  ELSE "PARAGRAPH")

\* a header row of two cells over a delimiter row of one cell, classified
\* PARAGRAPH
C15_Witness ==
    /\ pc = "blocks_classified"
    /\ Len(blocks) = 1
    /\ Len(splitlines(blocks[1])) = 2
    /\ PipeRow(splitlines(blocks[1])[1])
    /\ DelimiterRow(splitlines(blocks[1])[2])
    /\ Len(RowCells(splitlines(blocks[1])[1])) = 2
    /\ Len(RowCells(splitlines(blocks[1])[2])) = 1
    /\ block_types = <<"PARAGRAPH">>

\* the alignment a delimiter cell gives its column
Alignment(cell) ==
    IF cell[1] = ":" /\ cell[Len(cell)] = ":" THEN <<"c", "e", "n", "t", "e", "r">>
    ELSE IF cell[Len(cell)] = ":" THEN <<"r", "i", "g", "h", "t">>
    ELSE <<>>

\* node carries align="value"; with the empty value, no align attribute
CarriesAlign(node, value) ==
    LET aligns == IF node.props = Absent THEN {}
                  ELSE {k \in 1..Len(node.props) :
                           node.props[k].name = <<"a", "l", "i", "g", "n">>}
    IN  IF value = <<>> THEN aligns = {}
        ELSE aligns # {} /\ \A k \in aligns : node.props[k].value = value

\* C16: in the table a table block is rendered as, every cell of every
\* header and body row carries the align attribute of its column: "center"
\* for a delimiter cell with a colon on both ends, "right" for a colon on
\* the right end only, none otherwise.
C16_CellsCarryColumnAlign ==
    pc = "blocks_rendered" =>
        \A i \in 1..Len(blocks) :
            TableBlock(blocks[i]) =>
                LET delims == RowCells(splitlines(blocks[i])[2])
                    node == block_nodes[i].val
                IN  /\ block_nodes[i].exc = "none"
                    /\ TagIs(node, <<"t", "a", "b", "l", "e">>)
                    /\ \A s \in 1..Len(node.children) :
                       \A r \in 1..Len(node.children[s].children) :
                         LET row == node.children[s].children[r]
                         IN  \A k \in 1..Len(row.children) :
                               /\ k <= Len(delims)
                               /\ CarriesAlign(row.children[k],
                                               Alignment(delims[k]))

\* the text of a cell node: its value, or the values of its children
TextOf(node) ==
    IF node.value # None THEN node.value
    ELSE IF node.children = Absent THEN <<>>
    ELSE Concat([k \in 1..Len(node.children) |->
                    IF node.children[k].value # None
                    THEN node.children[k].value ELSE <<>>])

\* C17: in the table a table block with N header cells is rendered as,
\* every body row has exactly N cells: the first N cells of its line, in
\* order, padded on the right with empty cells.
C17_BodyRowsHaveHeaderWidth ==
    pc = "blocks_rendered" =>
        \A i \in 1..Len(blocks) :
            TableBlock(blocks[i]) =>
                LET lines == splitlines(blocks[i])
                    n == Len(RowCells(lines[1]))
                    node == block_nodes[i].val
                IN  /\ block_nodes[i].exc = "none"
                    /\ TableShape(node, n, Len(lines) - 2)
                    /\ \A r \in 1..(Len(lines) - 2) :
                         LET row == node.children[2].children[r]
                             cells == RowCells(lines[r + 2])
                         IN  /\ Len(row.children) = n
                             /\ \A k \in 1..n :
                                   TextOf(row.children[k]) =
                                       (IF k <= Len(cells) THEN cells[k]
                                        ELSE <<>>)

(***************************************************************************)
(* Nested spans: C18.                                                      *)
(***************************************************************************)
Plain(txt) == TextNode(txt, "PLAIN", None, <<>>)

BoldText == <<"b", "o", "l", "d", " ">>

AndItalicText == <<"a", "n", "d", " ", "i", "t", "a", "l", "i", "c">>

\* C18 as stated: '**bold _and italic_**' gives one Strong node whose
\* children are Plain('bold ') and an Emphasis node whose child is
\* Plain('and italic').
C18_NestedExampleWithChild ==
    pc = "inline"
    /\ markdown = <<"*", "*">> \o BoldText \o <<"_">> \o AndItalicText
                  \o <<"_", "*", "*">>
    => text_nodes =
          Return(<<TextNode(<<>>, "BOLD", None,
                     <<Plain(BoldText),
                       TextNode(<<>>, "ITALIC", None,
                                <<Plain(AndItalicText)>>)>>)>>)

\* the texts before, inside and after the inner span
SpanTexts == {<<>>, BoldText, AndItalicText}

\* C18 as amended: a Strong or Emphasis span opened, after some text, while
\* a span of the other kind is open becomes a child of that span, after a
\* Plain sibling holding the text before it; its own single Plain child is
\* collapsed into it, so it is a leaf holding its text.
C18_NestedSpanIsCollapsedChild ==
    pc = "inline" =>
        \A outer, inner \in {<<"*", "*">>, <<"_">>} :
        \A before, inside, after \in SpanTexts :
            /\ outer # inner /\ before # <<>> /\ inside # <<>>
            /\ markdown = outer \o before \o inner \o inside \o inner \o after
                          \o outer
            => text_nodes =
                  Return(<<TextNode(<<>>, INLINE_DELIMITERS(outer), None,
                             <<Plain(before),
                               TextNode(inside, INLINE_DELIMITERS(inner), None,
                                        <<>>)>>
                             \o (IF after # <<>> THEN <<Plain(after)>>
                                 ELSE <<>>))>>)

\* '**bold _and italic_**' has been parsed
C18_Witness ==
    /\ pc = "inline"
    /\ markdown = <<"*", "*">> \o BoldText \o <<"_">> \o AndItalicText
                  \o <<"_", "*", "*">>
    /\ text_nodes.exc = "none"
    /\ Len(text_nodes.val) = 1
    /\ Len(text_nodes.val[1].children) = 2

(***************************************************************************)
(* The inline tree: C19, C20.                                              *)
(***************************************************************************)
\* in the nodes and below them, only BOLD and ITALIC nodes have children
RECURSIVE OnlySpansOwnChildren(_)
OnlySpansOwnChildren(nodes) ==
    \A k \in 1..Len(nodes) :
        /\ nodes[k].children # <<>> => nodes[k].node_type \in {"BOLD", "ITALIC"}
        /\ OnlySpansOwnChildren(nodes[k].children)

\* C19: in every node list text_to_textnodes returns, at every depth, only
\* Strong and Emphasis nodes own children.
C19_OnlySpansOwnChildren ==
    pc = "inline" /\ text_nodes.exc = "none" =>
        OnlySpansOwnChildren(text_nodes.val)

\* the characters between the two markers of a text that is one code span
CodeSpanInterior == SubSeq(markdown, 2, Len(markdown) - 1)

\* the typed text is one code span: a marker, characters other than the
\* marker, a marker
OneCodeSpan ==
    /\ Len(markdown) >= 3
    /\ markdown[1] = Backquote
    /\ markdown[Len(markdown)] = Backquote
    /\ \A k \in 1..Len(CodeSpanInterior) : CodeSpanInterior[k] # Backquote

\* C20: the text between a pair of code markers is taken literally: the
\* parse of a text that is one code span succeeds and returns one CODE leaf
\* holding exactly the characters between the two markers.
C20_CodeSpanLiteral ==
    pc = "inline" /\ OneCodeSpan =>
        /\ text_nodes.exc = "none"
        /\ text_nodes.val = <<TextNode(CodeSpanInterior, "CODE", None, <<>>)>>

(***************************************************************************)
(* Links and images: C21, C22, C23.                                        *)
(***************************************************************************)
\* the link '[a](b)' as it is typed, and the node it stands for
LinkText == <<"[", "a", "]", "(", "b", ")">>

LinkNode == TextNode(<<"a">>, "LINK", <<"b">>, <<>>)

\* the Plain node of a piece of text, none for an empty piece
Pieces(txt) == IF txt # <<>> THEN <<Plain(txt)>> ELSE <<>>

\* C21: a link inside a strong or emphasis span is a Link node with its text
\* and its url in the subtree of the span, also when it is the only content
\* of the span.
C21_LinkInSpanKept ==
    pc = "inline" =>
        \A d \in {<<"*", "*">>, <<"_">>} :
            \A before, after \in {<<>>, <<"a">>, <<" ">>} :
                markdown = d \o before \o LinkText \o after \o d =>
                    /\ text_nodes.exc = "none"
                    /\ text_nodes.val =
                           <<TextNode(<<>>, INLINE_DELIMITERS(d), None,
                                      Pieces(before) \o <<LinkNode>>
                                      \o Pieces(after))>>

\* the image '![alt](url)' at index i of the text and the pieces around the
\* images after it, left to right; start is the index after the previous
\* image
RECURSIVE ImagePieces(_, _, _)
ImagePieces(text, i, start) ==
    IF i > Len(text) THEN Pieces(SubSeq(text, start, Len(text)))
    ELSE IF ImageMatchAt(text, i).next = 0 THEN ImagePieces(text, i + 1, start)
    ELSE Pieces(SubSeq(text, start, i - 1))
         \o <<TextNode(ImageMatchAt(text, i).text, "IMAGE",
                       ImageMatchAt(text, i).url, <<>>)>>
         \o ImagePieces(text, ImageMatchAt(text, i).next,
                        ImageMatchAt(text, i).next)

\* C22: split_nodes_image replaces every image of a node's text by an Image
\* node and returns the Plain and Image pieces left to right without empty
\* Plain pieces, for any number of images.
C22_EveryImageSplit ==
    pc = "images" /\ pass_input = <<Plain(markdown)>> =>
        /\ pass_output.exc = "none"
        /\ pass_output.val = ImagePieces(markdown, 1, 1)

\* a link typed up to its url 'b', and a parenthesised part of a url
LinkOpen == <<"[", "a", "]", "(", "b">>

UrlParens == <<"(", "a", ")">>

\* C23: the link pattern takes a url with one level of balanced parentheses
\* whole, up to the parenthesis that closes the link, and never matches a
\* bracket pair that follows '!'.
C23_UrlWithParensWhole ==
    pc = "inline" =>
        /\ \A rest \in {<<>>, <<"a">>} :
               markdown = LinkOpen \o UrlParens \o rest \o <<")">> =>
                   /\ text_nodes.exc = "none"
                   /\ text_nodes.val =
                          <<TextNode(<<"a">>, "LINK",
                                     <<"b">> \o UrlParens \o rest, <<>>)>>
        /\ \A parens \in {<<>>, UrlParens} :
               markdown = <<"!">> \o LinkOpen \o parens \o <<")">> =>
                   /\ text_nodes.exc = "none"
                   /\ \A k \in 1..Len(text_nodes.val) :
                          text_nodes.val[k].node_type # "LINK"

(***************************************************************************)
(* The emphasis markers: C24.                                              *)
(***************************************************************************)
\* the typed text is some text without markers between two copies of the
\* one-character marker
WrappedIn(marker) ==
    /\ Len(markdown) >= 3
    /\ markdown[1] = marker
    /\ markdown[Len(markdown)] = marker
    /\ \A k \in 2..(Len(markdown) - 1) : markdown[k] \notin {"*", "_"}

\* C24: text wrapped in a pair of '_' or in a pair of single '*' is one
\* ITALIC node holding the text without the markers.
C24_BothEmphasisMarkers ==
    pc = "inline" /\ (WrappedIn("_") \/ WrappedIn("*")) =>
        /\ text_nodes.exc = "none"
        /\ text_nodes.val =
               <<TextNode(SubSeq(markdown, 2, Len(markdown) - 1), "ITALIC",
                          None, <<>>)>>

(***************************************************************************)
(* Rendering of HTML nodes: C25, C26.                                      *)
(***************************************************************************)
\* a Parent whose tag is absent or whose children are absent or empty
InvalidParent(node) ==
    /\ node.kind = "ParentNode"
    /\ node.tag = None \/ node.children = Absent \/ node.children = <<>>

\* the node is an invalid Parent or has one somewhere below it
RECURSIVE HoldsInvalidParent(_)
HoldsInvalidParent(node) ==
    \/ InvalidParent(node)
    \/ /\ node.kind = "ParentNode"
       /\ \E k \in 1..Len(node.children) : HoldsInvalidParent(node.children[k])

\* C25: rendering a Parent whose tag is absent or whose children are absent
\* or empty fails, with the error of that check and not the error of a
\* child, and returns no string; an invalid Parent anywhere below the
\* rendered node makes the render fail.
C25_InvalidParentFails ==
    pc = "node_rendered" =>
        /\ InvalidParent(html_node) =>
               /\ html.exc = "ValueError"
               /\ html.msg \in {"None tag for parent node",
                                "None children tag for parent node"}
               /\ html.val = None
        /\ HoldsInvalidParent(html_node) => html.exc # "none" /\ html.val = None

\* a Parent with a tag was rendered whose second child is a Parent without
\* a tag, with a Leaf of absent content as its child
C25_Witness ==
    /\ pc = "node_rendered"
    /\ html_node.kind = "ParentNode"
    /\ html_node.tag = <<"p">>
    /\ Len(html_node.children) = 2
    /\ InvalidParent(html_node.children[2])
    /\ html_node.children[2].children # <<>>
    /\ html_node.children[2].children # Absent
    /\ html_node.children[2].children[1].kind = "LeafNode"
    /\ html_node.children[2].children[1].value = None
    /\ html.exc = "ValueError"

\* the attributes of an opening tag: a space, the name, '="', the value and
\* '"' for every attribute
RECURSIVE Attributes(_)
Attributes(props) ==
    IF props = Absent \/ props = <<>> THEN <<>>
    ELSE <<" ">> \o Head(props).name \o <<"=", "\"">> \o Head(props).value
         \o <<"\"">> \o Attributes(Tail(props))

\* C26: rendering a Leaf fails when its content is absent and succeeds when
\* it is the empty string; without a tag the Leaf renders as its content,
\* with a tag as <tag attrs>content</tag>, content and attribute values
\* verbatim.
C26_LeafRendersVerbatim ==
    pc = "node_rendered" /\ html_node.kind = "LeafNode" =>
        IF html_node.value = None THEN html.exc = "ValueError"
        ELSE /\ html.exc = "none"
             /\ html.val =
                    IF html_node.tag = None THEN html_node.value
                    ELSE <<"<">> \o html_node.tag \o Attributes(html_node.props)
                         \o <<">">> \o html_node.value
                         \o <<"<", "/">> \o html_node.tag \o <<">">>

\* a Leaf with a tag, an attribute and the empty string as content was
\* rendered
C26_Witness ==
    /\ pc = "node_rendered"
    /\ html_node.kind = "LeafNode"
    /\ html_node.tag = <<"b">>
    /\ html_node.props # Absent
    /\ html_node.value = <<>>
    /\ html.exc = "none"
    /\ html.val = <<"<", "b", " ", "h", "=", "\"", "\"", "&", "\"", ">",
                    "<", "/", "b", ">">>

(***************************************************************************)
(* Block separators in the output: C27.                                    *)
(***************************************************************************)
\* length of the line break, LF or CR LF, at index i of s; 0 when there is
\* none
LineBreakAt(s, i) ==
    IF i > Len(s) THEN 0
    ELSE IF s[i] = "\n" THEN 1
    ELSE IF s[i] = "\r" /\ i < Len(s) /\ s[i + 1] = "\n" THEN 2
    ELSE 0

\* s holds a blank line: two line breaks in a row
HasBlankLine(s) ==
    \E i \in 1..Len(s) :
        /\ LineBreakAt(s, i) > 0
        /\ LineBreakAt(s, i + LineBreakAt(s, i)) > 0

\* C27: the rendering of a document that parses and renders holds no blank
\* line.
C27_NoBlankLineInOutput ==
    pc = "rendered" /\ html.exc = "none" => ~HasBlankLine(html.val)

(***************************************************************************)
(* The inline passes as a whole: C28, C29.                                 *)
(***************************************************************************)
\* the texts of the nodes read in order, a node before its children
RECURSIVE ReadTexts(_)
ReadTexts(nodes) ==
    IF nodes = <<>> THEN <<>>
    ELSE Head(nodes).text \o ReadTexts(Head(nodes).children)
         \o ReadTexts(Tail(nodes))

\* the characters of s that belong to no delimiter marker
RECURSIVE WithoutMarkers(_)
WithoutMarkers(s) ==
    IF s = <<>> THEN <<>>
    ELSE (IF Head(s) \in {"*", "_", Backquote} THEN <<>> ELSE <<Head(s)>>)
         \o WithoutMarkers(Tail(s))

\* C28: inline parsing loses no text: the texts of the returned nodes, read
\* in order, are the characters of the input that belong to no marker, also
\* for a span whose only content is another span.
C28_NoTextLost ==
    pc = "inline" /\ text_nodes.exc = "none" =>
        ReadTexts(text_nodes.val) = WithoutMarkers(markdown)

\* C29: the inline passes never mutate a node once it is built: when
\* split_nodes_image or split_nodes_link returns or raises, the nodes of the
\* list it was given, children lists included, are as they were.
C29_PassesLeaveNodesAlone ==
    [][pc' \in {"images", "links"} => pass_input' = pass_output.val]_vars

(***************************************************************************)
(* The delimiter scan step by step: C30.                                   *)
(***************************************************************************)
\* the node of the arena that has node i among its children
ParentIndex(arena, i) ==
    CHOOSE p \in 1..Len(arena) :
        \E k \in 1..Len(arena[p].children) : arena[p].children[k] = i

\* number of nodes between node i and root, node i included
RECURSIVE NestingDepth(_, _)
NestingDepth(arena, i) ==
    IF i = 1 THEN 0 ELSE 1 + NestingDepth(arena, ParentIndex(arena, i))

\* the top frame of the stack
TopFrame(st) == st.open_stack[Len(st.open_stack)]

\* the node that was opened when the top frame was pushed: the last child
\* of the parent the frame saved
OpenedByTop(st) ==
    st.arena[TopFrame(st)[2]].children[Len(st.arena[TopFrame(st)[2]].children)]

\* the current parent is the node opened by the top frame, of the type of
\* the frame's delimiter, or root when the stack is empty; the stack is as
\* deep as the current parent is nested; adjacent frames differ in their
\* delimiter
StackMatchesNesting(st) ==
    /\ IF st.open_stack = <<>> THEN st.current_parent = 1
       ELSE /\ st.current_parent = OpenedByTop(st)
            /\ st.arena[st.current_parent].node_type =
                   INLINE_DELIMITERS(TopFrame(st)[1])
    /\ Len(st.open_stack) = NestingDepth(st.arena, st.current_parent)
    /\ \A k \in 1..(Len(st.open_stack) - 1) :
           st.open_stack[k][1] # st.open_stack[k + 1][1]

\* the text holds, at the index of the scan, the delimiter of the top frame
AtClosingDelimiter ==
    /\ pc = "scanning"
    /\ scan.open_stack # <<>>
    /\ startswith(markdown, TopFrame(scan)[1], scan.index)

\* C30: at every step of the scan the current parent is the node opened by
\* the top stack frame (root when the stack is empty), the stack depth is the
\* nesting depth of the current parent, no two adjacent frames hold the same
\* delimiter, and a close pops the span opened last and restores the parent
\* that was current when it was opened.
C30_StackDiscipline ==
    [][/\ pc' = "scanning" => StackMatchesNesting(scan')
       /\ AtClosingDelimiter /\ pc' = "scanning" =>
              /\ scan'.open_stack =
                     SubSeq(scan.open_stack, 1, Len(scan.open_stack) - 1)
              /\ scan'.current_parent =
                     ParentIndex(scan.arena, scan.current_parent)
              /\ scan'.current_parent = TopFrame(scan)[2]]_vars

\* a span nested in a span has been closed and the outer span is open
C30_Witness ==
    /\ pc = "scanning"
    /\ Len(scan.open_stack) = 1
    /\ scan.current_parent # 1
    /\ \E k \in 1..Len(scan.arena[scan.current_parent].children) :
           scan.arena[scan.arena[scan.current_parent].children[k]].node_type
               # "PLAIN"

====
